---- MODULE Spec2Model ----
(***************************************************************************)
(* Model of the sidecar process supervisor (src-tauri/src/sidecar.rs):     *)
(* SidecarManager { process: Arc<Mutex<Option<Child>>> } with start, stop, *)
(* is_running and Drop, called from several threads, together with the OS  *)
(* processes it spawns.                                                    *)
(***************************************************************************)
EXTENDS Integers, FiniteSets, Sequences, TLC

\* ---------------------------------------------------------------- bounds
NumThreads == 2
MaxChildren == 2

Threads == 1..NumThreads
Children == 1..MaxChildren

\* Option<Child>::None and "no thread holds the mutex"
None == 0
NoThread == 0

\* candidate interpreters in the order of the for loop of find_python
Candidates == <<"python3", "python">>
NotFound == "Python not found"

\* OS view of a child process:
\*   unspawned  not created yet
\*   launching  spawned, server not yet listening
\*   serving    spawned, server listening
\*   dying      kill delivered, not yet terminated
\*   zombie     terminated, exit status not yet collected
\*   reaped     exit status collected by the supervisor (wait / try_wait Ok)
\*   gone       terminated and collected by somebody else: kill, wait and
\*              try_wait on it report an error
ChildStates == {"unspawned", "launching", "serving", "dying", "zombie", "reaped", "gone"}
Alive == {"launching", "serving", "dying"}

VARIABLES
    process,     \* the handle slot: None or the child stored in it
    lock,        \* the Mutex: NoThread or the thread holding the guard
    childState,  \* OS state of every child
    pc,          \* position of every thread inside the call it is running
    child,       \* start's local `child` (spawned, not yet stored)
    killRes,     \* result of child.kill() in the stop holding the lock
    waitRes,     \* result of child.wait() in the stop holding the lock
    ret,         \* the call that returned last, and its value
    logged,      \* the last line written with eprintln!
    life,        \* "live", "dropping" (Drop::drop running), "dropped"
    dropStops,   \* number of stop calls made by Drop::drop
    stopReturned, \* a stop has returned and no start has stored a handle since
    orphaned,    \* children whose handle a later start overwrote in the slot
    \* one wait_for_health call
    hpc,         \* its position: h_idle, h_check, h_send, h_sleep, h_done,
                 \* h_cancelled, h_reported (the host's task has seen the result)
    elapsed,     \* start.elapsed(), in ticks of the poll interval
    hret,        \* its result: "-", "Ok" or "Timeout"
    hresp,       \* how its last request ended
    \* the host application (main.rs, tray.rs)
    hostPc,      \* position of the main thread
    window,      \* main window: "visible", "hidden" or "destroyed"
    setupDone,   \* steps of the setup closure that have run
    startCalls,  \* number of start calls made by the setup closure
    hostLog,     \* the last line the host wrote with eprintln!
    \* one find_python call, probe by probe
    probed,      \* how the version queries made so far have ended, in order
    python       \* its result: "-" (none yet), a candidate, or NotFound

supVars == <<process, lock, childState, pc, child, killRes, waitRes, ret, logged,
             life, dropStops, stopReturned, orphaned>>
healthVars == <<hpc, elapsed, hret, hresp>>
hostVars == <<hostPc, window, setupDone, startCalls, hostLog>>
findVars == <<probed, python>>
extVars == <<healthVars, hostVars, findVars>>
vars == <<supVars, extVars>>

NoRet == [op |-> "none", val |-> "none"]

\* ------------------------------------------------------------ SidecarManager::new
NewSlot == None

Init ==
    /\ process = NewSlot
    /\ lock = NoThread
    /\ childState = [c \in Children |-> "unspawned"]
    /\ pc = [t \in Threads |-> "idle"]
    /\ child = [t \in Threads |-> None]
    /\ killRes = "-"
    /\ waitRes = "-"
    /\ ret = NoRet
    /\ logged = "-"
    /\ life = "live"
    /\ dropStops = 0
    /\ stopReturned = FALSE
    /\ orphaned = {}
    /\ hpc = "h_idle"
    /\ elapsed = 0
    /\ hret = "-"
    /\ hresp = "-"
    /\ hostPc = "off"
    /\ window = "visible"
    /\ setupDone = {}
    /\ startCalls = 0
    /\ hostLog = "-"
    /\ probed = <<>>
    /\ python = "-"

\* ------------------------------------------------------------ find_python
\* probes[i] is TRUE when `Candidates[i] --version` runs and exits successfully
RECURSIVE FindFrom(_, _)
FindFrom(probes, i) ==
    IF i > Len(Candidates) THEN NotFound
    ELSE IF probes[i] THEN Candidates[i]
    ELSE FindFrom(probes, i + 1)

FindPython(probes) == FindFrom(probes, 1)

ProbeInputs == [1..Len(Candidates) -> BOOLEAN]

\* find_python probe by probe, inside a start call.
\* How `cmd --version` can end: output() is Err (no such command), the
\* command runs and exits unsuccessfully, the command runs and exits
\* successfully
ProbeOutcomes == {"absent", "failed", "success"}

\* let python = self.find_python()?; the loop is entered
FindCall(t) ==
    /\ life = "live"
    /\ pc[t] = "idle"
    /\ pc' = [pc EXCEPT ![t] = "find"]
    /\ probed' = <<>>
    /\ python' = "-"
    /\ UNCHANGED <<process, lock, childState, child, killRes, waitRes, ret,
                   logged, life, dropStops, stopReturned, orphaned,
                   healthVars, hostVars>>

\* variant: a successful candidate is remembered and the loop goes on
FindProbeKeepsLast(t) ==
    /\ pc[t] = "find"
    /\ Len(probed) < Len(Candidates)
    /\ \E o \in ProbeOutcomes :
        /\ probed' = Append(probed, o)
        /\ python' = IF o = "success" THEN Candidates[Len(probed) + 1] ELSE python
        /\ pc' = [pc EXCEPT ![t] = IF python' # "-" /\ Len(probed') = Len(Candidates)
                                     THEN "start_spawn" ELSE "find"]
    /\ UNCHANGED <<process, lock, childState, child, killRes, waitRes, ret,
                   logged, life, dropStops, stopReturned, orphaned,
                   healthVars, hostVars>>

\* one iteration: Command::new(cmd).arg("--version").output(); the first
\* candidate that ran and exited successfully is returned
FindProbe(t) ==
    /\ pc[t] = "find"
    /\ Len(probed) < Len(Candidates)
    /\ \E o \in ProbeOutcomes :
        /\ probed' = Append(probed, o)
        /\ python' = IF o = "success" THEN Candidates[Len(probed) + 1] ELSE python
        /\ pc' = [pc EXCEPT ![t] = IF o = "success" THEN "start_spawn" ELSE "find"]
    /\ UNCHANGED <<process, lock, childState, child, killRes, waitRes, ret,
                   logged, life, dropStops, stopReturned, orphaned,
                   healthVars, hostVars>>

\* the loop ends without a return: Err("Python not found. ..") and start's `?`
FindNone(t) ==
    /\ pc[t] = "find"
    /\ Len(probed) = Len(Candidates)
    /\ python = "-"
    /\ python' = NotFound
    /\ ret' = [op |-> "start", val |-> "RuntimeNotFound"]
    /\ pc' = [pc EXCEPT ![t] = "idle"]
    /\ UNCHANGED <<process, lock, childState, child, killRes, waitRes,
                   logged, life, dropStops, stopReturned, orphaned,
                   probed, healthVars, hostVars>>

\* Command::new(python)...spawn() fails
FoundSpawnFailed(t) ==
    /\ pc[t] = "start_spawn"
    /\ ret' = [op |-> "start", val |-> "SpawnFailed"]
    /\ pc' = [pc EXCEPT ![t] = "idle"]
    /\ UNCHANGED <<process, lock, childState, child, killRes, waitRes,
                   logged, life, dropStops, stopReturned, orphaned, extVars>>

\* Command::new(python)...spawn() succeeds
FoundSpawn(t) ==
    /\ pc[t] = "start_spawn"
    /\ \E c \in Children :
        /\ childState[c] = "unspawned"
        /\ \A d \in Children : d < c => childState[d] # "unspawned"
        /\ childState' = [childState EXCEPT ![c] = "launching"]
        /\ child' = [child EXCEPT ![t] = c]
    /\ pc' = [pc EXCEPT ![t] = "start_lock"]
    /\ UNCHANGED <<process, lock, killRes, waitRes, ret, logged, life,
                   dropStops, stopReturned, orphaned, extVars>>

\* ------------------------------------------------------------ start
\* find_python()? fails: Err returned before anything is spawned
StartNotFound(t) ==
    /\ life = "live"
    /\ pc[t] = "idle"
    /\ \E probes \in ProbeInputs : FindPython(probes) = NotFound
    /\ ret' = [op |-> "start", val |-> "RuntimeNotFound"]
    /\ UNCHANGED <<process, lock, childState, pc, child, killRes, waitRes,
                   logged, life, dropStops, stopReturned, orphaned, extVars>>

\* variant: a failed spawn resets the slot
StartSpawnFailedClears(t) ==
    /\ life = "live"
    /\ pc[t] = "idle"
    /\ lock = NoThread
    /\ \E probes \in ProbeInputs : FindPython(probes) # NotFound
    /\ ret' = [op |-> "start", val |-> "SpawnFailed"]
    /\ process' = None
    /\ UNCHANGED <<lock, childState, pc, child, killRes, waitRes,
                   logged, life, dropStops, stopReturned, orphaned, extVars>>

\* Command::spawn() fails: map_err(..)? returns the spawn error
StartSpawnFailed(t) ==
    /\ life = "live"
    /\ pc[t] = "idle"
    /\ \E probes \in ProbeInputs : FindPython(probes) # NotFound
    /\ ret' = [op |-> "start", val |-> "SpawnFailed"]
    /\ UNCHANGED <<process, lock, childState, pc, child, killRes, waitRes,
                   logged, life, dropStops, stopReturned, orphaned, extVars>>

\* Command::spawn() succeeds: a new OS process exists, held in the local `child`
StartSpawn(t) ==
    /\ life = "live"
    /\ pc[t] = "idle"
    /\ \E probes \in ProbeInputs : FindPython(probes) # NotFound
    /\ \E c \in Children :
        /\ childState[c] = "unspawned"
        /\ \A d \in Children : d < c => childState[d] # "unspawned"
        /\ childState' = [childState EXCEPT ![c] = "launching"]
        /\ child' = [child EXCEPT ![t] = c]
    /\ pc' = [pc EXCEPT ![t] = "start_lock"]
    /\ UNCHANGED <<process, lock, killRes, waitRes, ret, logged, life,
                   dropStops, stopReturned, orphaned, extVars>>

\* variant: the slot is reached without waiting for the mutex
StartLockUnguarded(t) ==
    /\ pc[t] = "start_lock"
    /\ lock' = t
    /\ pc' = [pc EXCEPT ![t] = "start_store"]
    /\ UNCHANGED <<process, childState, child, killRes, waitRes, ret, logged,
                   life, dropStops, stopReturned, orphaned, extVars>>

\* self.process.lock().unwrap()
StartLock(t) ==
    /\ pc[t] = "start_lock"
    /\ lock = NoThread
    /\ lock' = t
    /\ pc' = [pc EXCEPT ![t] = "start_store"]
    /\ UNCHANGED <<process, childState, child, killRes, waitRes, ret, logged,
                   life, dropStops, stopReturned, orphaned, extVars>>

\* variant: a handle already stored is kept
StartSlotKeepsOld(old, new) == IF old # None THEN old ELSE new

\* the value start writes into the slot: Some(child), whatever was there
StartSlot(old, new) == new

\* variant: the store terminates the child whose handle it replaces
StartStoreKillsOld(t) ==
    /\ pc[t] = "start_store"
    /\ lock = t
    /\ process' = child[t]
    /\ childState' = IF process # None
                      THEN [childState EXCEPT ![process] = "dying"]
                      ELSE childState
    /\ lock' = NoThread
    /\ child' = [child EXCEPT ![t] = None]
    /\ ret' = [op |-> "start", val |-> "Ok"]
    /\ pc' = [pc EXCEPT ![t] = "idle"]
    /\ stopReturned' = FALSE
    /\ UNCHANGED <<killRes, waitRes, logged, life, dropStops, orphaned,
                   extVars>>

\* the handle that was in the slot is dropped by the assignment: its child is
\* no longer reachable from the supervisor
Orphans(set, old) == IF old # None THEN set \cup {old} ELSE set

\* *guard = Some(child); the guard is dropped at the end of the statement; Ok(())
\* The Child that was in the slot is dropped, which neither kills nor waits.
StartStore(t) ==
    /\ pc[t] = "start_store"
    /\ lock = t
    /\ process' = StartSlot(process, child[t])
    /\ lock' = NoThread
    /\ child' = [child EXCEPT ![t] = None]
    /\ ret' = [op |-> "start", val |-> "Ok"]
    /\ pc' = [pc EXCEPT ![t] = "idle"]
    /\ stopReturned' = FALSE
    /\ orphaned' = Orphans(orphaned, process)
    /\ UNCHANGED <<childState, killRes, waitRes, logged, life, dropStops,
                   extVars>>

\* ------------------------------------------------------------ stop
StopCall(t) ==
    /\ life = "live"
    /\ pc[t] = "idle"
    /\ pc' = [pc EXCEPT ![t] = "stop_lock"]
    /\ UNCHANGED <<process, lock, childState, child, killRes, waitRes, ret,
                   logged, life, dropStops, stopReturned, orphaned, extVars>>

\* let mut process = self.process.lock().unwrap();
StopLock(t) ==
    /\ pc[t] = "stop_lock"
    /\ lock = NoThread
    /\ lock' = t
    /\ pc' = [pc EXCEPT ![t] = "stop_check"]
    /\ UNCHANGED <<process, childState, child, killRes, waitRes, ret, logged,
                   life, dropStops, stopReturned, orphaned, extVars>>

\* variant: the handle is unwrapped without the `if let`, stop fails on None
StopNonePanics(t) ==
    /\ pc[t] = "stop_check"
    /\ lock = t
    /\ process = None
    /\ pc' = [pc EXCEPT ![t] = "idle"]
    /\ lock' = NoThread
    /\ ret' = [op |-> "stop", val |-> "panic"]
    /\ UNCHANGED <<process, childState, child, killRes, waitRes, logged, life,
                   dropStops, stopReturned, orphaned, extVars>>

\* if let Some(..) = *process fails: nothing to kill
StopNone(t) ==
    /\ pc[t] = "stop_check"
    /\ lock = t
    /\ process = None
    /\ pc' = [pc EXCEPT ![t] = "stop_clear"]
    /\ UNCHANGED <<process, lock, childState, child, killRes, waitRes, ret,
                   logged, life, dropStops, stopReturned, orphaned, extVars>>

\* results child.kill() can report for a child in OS state s: the OS may
\* refuse the signal in any state, and always does once the child is gone
KillResults(s) == IF s = "gone" THEN {"Err"} ELSE {"Ok", "Err"}

\* OS state of the child after kill() reported r
AfterKill(s, r) ==
    IF r = "Ok" /\ s \in {"launching", "serving"} THEN "dying" ELSE s

\* child.kill(); an error is only printed
StopKill(t) ==
    /\ pc[t] = "stop_check"
    /\ lock = t
    /\ process # None
    /\ \E r \in KillResults(childState[process]) :
        /\ killRes' = r
        /\ childState' = [childState EXCEPT ![process] = AfterKill(@, r)]
        /\ logged' = IF r = "Err" THEN "Error stopping server"
                     ELSE logged
    /\ pc' = [pc EXCEPT ![t] = "stop_wait"]
    /\ UNCHANGED <<process, lock, child, waitRes, ret, life, dropStops,
                   stopReturned, orphaned, extVars>>

\* child.wait() blocks until the child has terminated; it collects the exit
\* status of a zombie (Ok) and reports an error when the status was already
\* collected elsewhere
WaitReturns(s) == s \in {"zombie", "gone"}
WaitResult(s) == IF s = "zombie" THEN "Ok" ELSE "Err"
AfterWait(s) == IF s = "zombie" THEN "reaped" ELSE s

\* variant: stop does not wait for the exit (the wait is left out)
StopWaitSkipped(t) ==
    /\ pc[t] = "stop_wait"
    /\ lock = t
    /\ process # None
    /\ waitRes' = "Ok"
    /\ pc' = [pc EXCEPT ![t] = "stop_clear"]
    /\ UNCHANGED <<process, lock, childState, child, killRes, ret, logged,
                   life, dropStops, stopReturned, orphaned, extVars>>

\* child.wait(); an error is only printed
StopWait(t) ==
    /\ pc[t] = "stop_wait"
    /\ lock = t
    /\ process # None
    /\ WaitReturns(childState[process])
    /\ waitRes' = WaitResult(childState[process])
    /\ childState' = [childState EXCEPT ![process] = AfterWait(@)]
    /\ logged' = IF WaitResult(childState[process]) = "Err"
                 THEN "Error waiting for server to stop"
                 ELSE logged
    /\ pc' = [pc EXCEPT ![t] = "stop_clear"]
    /\ UNCHANGED <<process, lock, child, killRes, ret, life, dropStops,
                   stopReturned, orphaned, extVars>>

\* variants: the slot is cleared only when the kill / the wait succeeded
StopSlotUnlessKillErr(old, k, w) == IF k = "Err" THEN old ELSE None
StopSlotUnlessWaitErr(old, k, w) == IF w = "Err" THEN old ELSE None

\* the value stop leaves in the slot
StopSlot(old, k, w) == None

\* *process = None; the guard and the locals are dropped; stop returns ()
StopClear(t) ==
    /\ pc[t] = "stop_clear"
    /\ lock = t
    /\ process' = StopSlot(process, killRes, waitRes)
    /\ lock' = NoThread
    /\ ret' = [op |-> "stop", val |-> "unit"]
    /\ pc' = [pc EXCEPT ![t] = "idle"]
    /\ life' = IF life = "dropping" THEN "dropped" ELSE life
    /\ stopReturned' = TRUE
    /\ killRes' = "-"
    /\ waitRes' = "-"
    /\ UNCHANGED <<childState, child, logged, dropStops, orphaned, extVars>>

\* ------------------------------------------------------------ is_running
IsRunningCall(t) ==
    /\ life = "live"
    /\ pc[t] = "idle"
    /\ pc' = [pc EXCEPT ![t] = "running_lock"]
    /\ UNCHANGED <<process, lock, childState, child, killRes, waitRes, ret,
                   logged, life, dropStops, stopReturned, orphaned, extVars>>

\* let mut process = self.process.lock().unwrap();
IsRunningLock(t) ==
    /\ pc[t] = "running_lock"
    /\ lock = NoThread
    /\ lock' = t
    /\ pc' = [pc EXCEPT ![t] = "running_probe"]
    /\ UNCHANGED <<process, childState, child, killRes, waitRes, ret, logged,
                   life, dropStops, stopReturned, orphaned, extVars>>

\* child.try_wait() for a child in OS state s: Ok(Some(_)) for a zombie, an
\* error when the status was already collected elsewhere, Ok(None) otherwise
TryWait(s) ==
    CASE s = "zombie" -> "Exited"
      [] s = "gone" -> "Err"
      [] OTHER -> "Running"

\* variant: the else branch answers true
RunningValueInverted(slot, probe) ==
    IF slot = None \/ probe = "Running" THEN "true" ELSE "false"

\* value returned by is_running
RunningValue(slot, probe) ==
    IF slot # None /\ probe = "Running" THEN "true" ELSE "false"

\* variant: the Err arm clears the slot too
RunningSlotClearedOnErr(slot, probe) ==
    IF slot # None /\ probe \in {"Exited", "Err"} THEN None ELSE slot

\* variant: the Ok(Some(_)) arm does not clear the slot
RunningSlotKept(slot, probe) == slot

\* value is_running leaves in the slot
RunningSlot(slot, probe) ==
    IF slot # None /\ probe = "Exited" THEN None ELSE slot

\* else branch: no handle
IsRunningNone(t) ==
    /\ pc[t] = "running_probe"
    /\ lock = t
    /\ process = None
    /\ ret' = [op |-> "is_running",
                                  val |-> RunningValue(process, "Running")]
    /\ process' = RunningSlot(process, "Running")
    /\ lock' = NoThread
    /\ pc' = [pc EXCEPT ![t] = "idle"]
    /\ UNCHANGED <<childState, child, killRes, waitRes, logged, life,
                   dropStops, stopReturned, orphaned, extVars>>

\* Ok(Some(_)): the child has exited; its status is collected, the slot cleared
IsRunningExited(t) ==
    /\ pc[t] = "running_probe"
    /\ lock = t
    /\ process # None
    /\ TryWait(childState[process]) = "Exited"
    /\ childState' = [childState EXCEPT ![process] = "reaped"]
    /\ ret' = [op |-> "is_running",
                                  val |-> RunningValue(process, "Exited")]
    /\ process' = RunningSlot(process, "Exited")
    /\ lock' = NoThread
    /\ pc' = [pc EXCEPT ![t] = "idle"]
    /\ UNCHANGED <<child, killRes, waitRes, logged, life, dropStops,
                   stopReturned, orphaned, extVars>>

\* Ok(None): the child is still running
IsRunningAlive(t) ==
    /\ pc[t] = "running_probe"
    /\ lock = t
    /\ process # None
    /\ TryWait(childState[process]) = "Running"
    /\ ret' = [op |-> "is_running",
                                  val |-> RunningValue(process, "Running")]
    /\ process' = RunningSlot(process, "Running")
    /\ lock' = NoThread
    /\ pc' = [pc EXCEPT ![t] = "idle"]
    /\ UNCHANGED <<childState, child, killRes, waitRes, logged, life,
                   dropStops, stopReturned, orphaned, extVars>>

\* Err(e): the probe failed; logged, false
IsRunningProbeErr(t) ==
    /\ pc[t] = "running_probe"
    /\ lock = t
    /\ process # None
    /\ TryWait(childState[process]) = "Err"
    /\ logged' = "Error checking process status"
    /\ ret' = [op |-> "is_running",
                                  val |-> RunningValue(process, "Err")]
    /\ process' = RunningSlot(process, "Err")
    /\ lock' = NoThread
    /\ pc' = [pc EXCEPT ![t] = "idle"]
    /\ UNCHANGED <<childState, child, killRes, waitRes, life, dropStops,
                   stopReturned, orphaned, extVars>>

\* ------------------------------------------------------------ Drop
\* number of times Drop::drop calls self.stop()
DropStopCalls == 1

\* drop(&mut self): no call on the manager is in progress; runs self.stop()
Drop(t) ==
    /\ life = "live"
    /\ \A u \in Threads : pc[u] = "idle"
    /\ life' = "dropping"
    /\ dropStops' = dropStops + DropStopCalls
    /\ pc' = [pc EXCEPT ![t] = "stop_lock"]
    /\ UNCHANGED <<process, lock, childState, child, killRes, waitRes, ret,
                   logged, stopReturned, orphaned, extVars>>

\* ------------------------------------------------------------ the child processes
\* the spawned server starts listening
ChildReady(c) ==
    /\ childState[c] = "launching"
    /\ childState' = [childState EXCEPT ![c] = "serving"]
    /\ UNCHANGED <<process, lock, pc, child, killRes, waitRes, ret, logged,
                   life, dropStops, stopReturned, orphaned, extVars>>

\* the child terminates: on its own, or because it was killed
ChildExit(c) ==
    /\ childState[c] \in Alive
    /\ childState' = [childState EXCEPT ![c] = "zombie"]
    /\ UNCHANGED <<process, lock, pc, child, killRes, waitRes, ret, logged,
                   life, dropStops, stopReturned, orphaned, extVars>>

\* the exit status of a terminated child is collected outside the supervisor
ChildCollected(c) ==
    /\ childState[c] = "zombie"
    /\ childState' = [childState EXCEPT ![c] = "gone"]
    /\ UNCHANGED <<process, lock, pc, child, killRes, waitRes, ret, logged,
                   life, dropStops, stopReturned, orphaned, extVars>>

\* ------------------------------------------------------------ wait_for_health
\* Time is counted in ticks of the poll interval (500 ms).
\* Duration::from_secs(10), Duration::from_secs(2), Duration::from_millis(500)
DeadlineTicks == 20
RequestTicks == 4
PollTicks == 1

\* while start.elapsed() < timeout
DeadlineOpen(e) == e < DeadlineTicks

\* ways a request can fail: a response that is not a success status, a
\* connection failure, the per-request timeout
Failures == {"status", "refused", "timeout"}

\* time a request can take before it ends in way k
Durations(k) == IF k = "timeout" THEN {RequestTicks} ELSE 0..RequestTicks

\* let start = Instant::now(); let timeout = ..; let client = ..
HealthCall ==
    /\ hpc = "h_idle"
    /\ hpc' = "h_check"
    /\ elapsed' = 0
    /\ hret' = "-"
    /\ hresp' = "-"
    /\ UNCHANGED <<supVars, findVars, hostVars>>

\* variant: the poll looks at the handle first, under the mutex
HealthPollLocked ==
    /\ hpc = "h_check"
    /\ DeadlineOpen(elapsed)
    /\ lock = NoThread
    /\ process # None
    /\ hpc' = "h_send"
    /\ UNCHANGED <<supVars, findVars, hostVars, elapsed, hret, hresp>>

\* the loop condition holds: client.get(..).timeout(..).send() is awaited
HealthPoll ==
    /\ hpc = "h_check"
    /\ DeadlineOpen(elapsed)
    /\ hpc' = "h_send"
    /\ UNCHANGED <<supVars, findVars, hostVars, elapsed, hret, hresp>>

\* the loop condition fails: Err("Timeout waiting for FastAPI server to start")
HealthTimeout ==
    /\ hpc = "h_check"
    /\ ~DeadlineOpen(elapsed)
    /\ hret' = "Timeout"
    /\ hpc' = "h_done"
    /\ UNCHANGED <<supVars, findVars, hostVars, elapsed, hresp>>

\* variant: the interval is slept before Ok is returned
HealthSuccessSleeps ==
    /\ hpc = "h_send"
    /\ \E d \in Durations("success") : elapsed' = elapsed + d + PollTicks
    /\ hresp' = "success"
    /\ hret' = "Ok"
    /\ hpc' = "h_done"
    /\ UNCHANGED <<supVars, findVars, hostVars>>

\* Ok(response) if response.status().is_success() => return Ok(())
HealthSuccess ==
    /\ hpc = "h_send"
    /\ \E d \in Durations("success") : elapsed' = elapsed + d
    /\ hresp' = "success"
    /\ hret' = "Ok"
    /\ hpc' = "h_done"
    /\ UNCHANGED <<supVars, findVars, hostVars>>

\* _ => the request failed: tokio::time::sleep(..) is awaited next
HealthFailure ==
    /\ hpc = "h_send"
    /\ \E k \in Failures : \E d \in Durations(k) :
        /\ elapsed' = elapsed + d
        /\ hresp' = k
    /\ hpc' = "h_sleep"
    /\ UNCHANGED <<supVars, findVars, hostVars, hret>>

\* variant: the clock is restarted after every failed attempt
HealthSleepRestartsClock ==
    /\ hpc = "h_sleep"
    /\ elapsed' = 0
    /\ hresp' = "-"
    /\ hpc' = "h_check"
    /\ UNCHANGED <<supVars, findVars, hostVars, hret>>

\* the sleep ends, the failed response is gone: back to the loop condition
HealthSleep ==
    /\ hpc = "h_sleep"
    /\ elapsed' = elapsed + PollTicks
    /\ hresp' = "-"
    /\ hpc' = "h_check"
    /\ UNCHANGED <<supVars, findVars, hostVars, hret>>

\* the future is dropped at one of its two .await points, and its locals
\* (start, the response) with it
HealthCancel ==
    /\ hpc \in {"h_send", "h_sleep"}
    /\ hpc' = "h_cancelled"
    /\ elapsed' = 0
    /\ hresp' = "-"
    /\ UNCHANGED <<supVars, findVars, hostVars, hret>>

HealthNext ==
    \/ HealthCall
    \/ HealthPoll
    \/ HealthTimeout
    \/ HealthSuccess
    \/ HealthFailure
    \/ HealthSleep
    \/ HealthCancel

\* ------------------------------------------------------------ specification
Next ==
    \/ \E t \in Threads : StartNotFound(t)
    \/ \E t \in Threads : StartSpawnFailed(t)
    \/ \E t \in Threads : StartSpawn(t)
    \/ \E t \in Threads : StartLock(t)
    \/ \E t \in Threads : StartStore(t)
    \/ \E t \in Threads : StopCall(t)
    \/ \E t \in Threads : StopLock(t)
    \/ \E t \in Threads : StopNone(t)
    \/ \E t \in Threads : StopKill(t)
    \/ \E t \in Threads : StopWait(t)
    \/ \E t \in Threads : StopClear(t)
    \/ \E t \in Threads : IsRunningCall(t)
    \/ \E t \in Threads : IsRunningLock(t)
    \/ \E t \in Threads : IsRunningNone(t)
    \/ \E t \in Threads : IsRunningExited(t)
    \/ \E t \in Threads : IsRunningAlive(t)
    \/ \E t \in Threads : IsRunningProbeErr(t)
    \/ \E t \in Threads : Drop(t)
    \/ \E c \in Children : ChildReady(c)
    \/ \E c \in Children : ChildExit(c)
    \/ \E c \in Children : ChildCollected(c)

Spec == Init /\ [][Next]_vars

\* ------------------------------------------------------------ host (main.rs, tray.rs)
\* the main thread runs the setup closure and the event handlers; the
\* webview's is_backend_running commands run on another thread
MainThread == 1
IpcThread == 2

SetupSteps == {"health", "tray", "handler", "shortcut", "updates"}

\* the application has finished setup and its process has not exited
HostLive == {"running", "quit_close", "quit_exit", "in_stop"}

\* .setup(move |app| { println!("CNL Application starting...");
HostSetup ==
    /\ hostPc = "off"
    /\ hostPc' = "setup"
    /\ UNCHANGED <<supVars, findVars, healthVars, window, setupDone, startCalls, hostLog>>

\* sidecar_clone.start() is called
HostCallStart ==
    /\ hostPc = "setup"
    /\ hostPc' = "in_start"
    /\ startCalls' = startCalls + 1
    /\ UNCHANGED <<supVars, findVars, healthVars, window, setupDone, hostLog>>

\* the start called by the setup closure has returned
HostStartReturned == pc[MainThread] = "idle" /\ ret.op = "start"

\* the body of that start call
HostStartStep ==
    /\ hostPc = "in_start"
    /\ ~HostStartReturned
    /\ \/ StartNotFound(MainThread)
       \/ StartSpawnFailed(MainThread)
       \/ StartSpawn(MainThread)
       \/ StartLock(MainThread)
       \/ StartStore(MainThread)

\* variant: a failed start is logged and setup goes on
HostStartErrGoesOn ==
    /\ hostPc = "in_start"
    /\ HostStartReturned
    /\ ret.val # "Ok"
    /\ hostPc' = "setup_health"
    /\ hostLog' = "Failed to start backend server"
    /\ UNCHANGED <<supVars, findVars, healthVars, window, setupDone, startCalls>>

\* if let Err(e) = start() { eprintln!(..); return Err(e.into()); }
HostStartErr ==
    /\ hostPc = "in_start"
    /\ HostStartReturned
    /\ ret.val # "Ok"
    /\ hostPc' = "aborted"
    /\ hostLog' = "Failed to start backend server"
    /\ UNCHANGED <<supVars, findVars, healthVars, window, setupDone, startCalls>>

\* start returned Ok(()): setup goes on
HostStartOk ==
    /\ hostPc = "in_start"
    /\ HostStartReturned
    /\ ret.val = "Ok"
    /\ hostPc' = "setup_health"
    /\ UNCHANGED <<supVars, findVars, healthVars, window, setupDone, startCalls, hostLog>>

\* tauri::async_runtime::spawn(async move { wait_for_health().await .. })
HostSpawnHealth ==
    /\ hostPc = "setup_health"
    /\ hostPc' = "setup_tray"
    /\ setupDone' = setupDone \cup {"health"}
    /\ UNCHANGED <<supVars, findVars, healthVars, window, startCalls, hostLog>>

\* the spawned task runs wait_for_health until the process ends
HostHealthStep ==
    /\ "health" \in setupDone
    /\ hostPc \notin {"aborted", "exited"}
    /\ \/ HealthCall
       \/ HealthPoll
       \/ HealthTimeout
       \/ HealthSuccess
       \/ HealthFailure
       \/ HealthSleep

\* variant: a health-check timeout takes the backend down and ends setup
HostHealthFailedFatal ==
    /\ hostPc \notin {"aborted", "exited"}
    /\ hpc = "h_done"
    /\ hret = "Timeout"
    /\ hpc' = "h_reported"
    /\ hostLog' = "Backend health check failed"
    /\ hostPc' = "aborted"
    /\ process' = None
    /\ UNCHANGED <<lock, childState, pc, child, killRes, waitRes, ret, logged,
                   life, dropStops, stopReturned, orphaned,
                   elapsed, hret, hresp, window, setupDone, startCalls,
                   findVars>>

\* if let Err(e) = ..wait_for_health().await { eprintln!(..) }: the task ends
HostHealthFailed ==
    /\ hostPc \notin {"aborted", "exited"}
    /\ hpc = "h_done"
    /\ hret = "Timeout"
    /\ hpc' = "h_reported"
    /\ hostLog' = "Backend health check failed"
    /\ UNCHANGED <<supVars, findVars, elapsed, hret, hresp,
                   hostPc, window, setupDone, startCalls>>

\* wait_for_health returned Ok(()): the task ends
HostHealthReady ==
    /\ hostPc \notin {"aborted", "exited"}
    /\ hpc = "h_done"
    /\ hret = "Ok"
    /\ hpc' = "h_reported"
    /\ UNCHANGED <<supVars, findVars, elapsed, hret, hresp, hostVars>>

\* tray::create_system_tray(..) fails: eprintln!(..); return Err(e.into())
HostTrayErr ==
    /\ hostPc = "setup_tray"
    /\ hostPc' = "aborted"
    /\ hostLog' = "Failed to create system tray"
    /\ UNCHANGED <<supVars, findVars, healthVars, window, setupDone, startCalls>>

\* tray::create_system_tray(..) succeeds
HostTrayOk ==
    /\ hostPc = "setup_tray"
    /\ hostPc' = "setup_window"
    /\ setupDone' = setupDone \cup {"tray"}
    /\ UNCHANGED <<supVars, findVars, healthVars, window, startCalls, hostLog>>

\* window.on_window_event(move |event| { .. })
HostWindowHandler ==
    /\ hostPc = "setup_window"
    /\ hostPc' = "setup_shortcut"
    /\ setupDone' = setupDone \cup {"handler"}
    /\ UNCHANGED <<supVars, findVars, healthVars, window, startCalls, hostLog>>

\* setup_global_shortcut(..): an error is logged and startup continues
HostShortcut ==
    /\ hostPc = "setup_shortcut"
    /\ hostPc' = "setup_updates"
    /\ setupDone' = setupDone \cup {"shortcut"}
    /\ \E ok \in BOOLEAN :
        hostLog' = IF ok THEN hostLog ELSE "Failed to register global shortcut"
    /\ UNCHANGED <<supVars, findVars, healthVars, window, startCalls>>

\* the two update checks are started; the closure returns Ok(())
HostUpdates ==
    /\ hostPc = "setup_updates"
    /\ hostPc' = "running"
    /\ setupDone' = setupDone \cup {"updates"}
    /\ UNCHANGED <<supVars, findVars, healthVars, window, startCalls, hostLog>>

\* WindowEvent::CloseRequested: window.hide(); api.prevent_close()
CloseRequested(w) == IF w = "destroyed" THEN w ELSE "hidden"

\* variant: the CloseRequested arm calls stop, as the Destroyed arm does
HostCloseRequestedStops ==
    /\ hostPc = "running"
    /\ "handler" \in setupDone
    /\ window = "visible"
    /\ pc[MainThread] = "idle"
    /\ window' = CloseRequested(window)
    /\ pc' = [pc EXCEPT ![MainThread] = "stop_lock"]
    /\ UNCHANGED <<process, lock, childState, child, killRes, waitRes, ret,
                   logged, life, dropStops, stopReturned, orphaned,
                   findVars, healthVars, hostPc, setupDone, startCalls, hostLog>>

\* the user closes the main window
HostCloseRequested ==
    /\ hostPc = "running"
    /\ "handler" \in setupDone
    /\ window = "visible"
    /\ window' = CloseRequested(window)
    /\ UNCHANGED <<supVars, findVars, healthVars, hostPc, setupDone, startCalls, hostLog>>

\* show_main_window: tray "open", tray click, "settings"
HostShow ==
    /\ hostPc = "running"
    /\ "tray" \in setupDone
    /\ window = "hidden"
    /\ window' = "visible"
    /\ UNCHANGED <<supVars, findVars, healthVars, hostPc, setupDone, startCalls, hostLog>>

\* is_backend_running, invoked by the webview
HostIpcStep ==
    /\ hostPc \in HostLive
    /\ \/ IsRunningCall(IpcThread)
       \/ IsRunningLock(IpcThread)
       \/ IsRunningNone(IpcThread)
       \/ IsRunningExited(IpcThread)
       \/ IsRunningAlive(IpcThread)
       \/ IsRunningProbeErr(IpcThread)

\* tray menu "quit": quit_application is entered
HostQuit ==
    /\ hostPc = "running"
    /\ "tray" \in setupDone
    /\ hostPc' = "quit_close"
    /\ UNCHANGED <<supVars, findVars, healthVars, window, setupDone, startCalls, hostLog>>

\* window.close(): the window's CloseRequested handler answers the request
HostQuitClose ==
    /\ hostPc = "quit_close"
    /\ window' = CloseRequested(window)
    /\ hostPc' = "quit_exit"
    /\ UNCHANGED <<supVars, findVars, healthVars, setupDone, startCalls, hostLog>>

\* WindowEvent::Destroyed, should the runtime destroy the window while the
\* application exits: sidecar_for_close.stop() is called
HostDestroyed ==
    /\ hostPc = "quit_exit"
    /\ "handler" \in setupDone
    /\ window # "destroyed"
    /\ window' = "destroyed"
    /\ hostPc' = "in_stop"
    /\ UNCHANGED <<supVars, findVars, healthVars, setupDone, startCalls, hostLog>>

\* the stop called by the Destroyed handler has returned
HostStopReturned == pc[MainThread] = "idle" /\ stopReturned

\* the body of that stop call
HostStopStep ==
    /\ hostPc = "in_stop"
    /\ ~HostStopReturned
    /\ \/ StopCall(MainThread)
       \/ StopLock(MainThread)
       \/ StopNone(MainThread)
       \/ StopKill(MainThread)
       \/ StopWait(MainThread)
       \/ StopClear(MainThread)

\* the Destroyed handler returns
HostStopReturn ==
    /\ hostPc = "in_stop"
    /\ HostStopReturned
    /\ hostPc' = "quit_exit"
    /\ UNCHANGED <<supVars, findVars, healthVars, window, setupDone, startCalls, hostLog>>

\* app.exit(0): the process ends; no destructor of the managed state runs
HostExit ==
    /\ hostPc = "quit_exit"
    /\ hostPc' = "exited"
    /\ UNCHANGED <<supVars, findVars, healthVars, window, setupDone, startCalls, hostLog>>

NextHost ==
    \/ HostSetup
    \/ HostCallStart
    \/ HostStartStep
    \/ HostStartErr
    \/ HostStartOk
    \/ HostSpawnHealth
    \/ HostHealthStep
    \/ HostHealthFailed
    \/ HostHealthReady
    \/ HostTrayErr
    \/ HostTrayOk
    \/ HostWindowHandler
    \/ HostShortcut
    \/ HostUpdates
    \/ HostCloseRequested
    \/ HostShow
    \/ HostIpcStep
    \/ HostQuit
    \/ HostQuitClose
    \/ HostDestroyed
    \/ HostStopStep
    \/ HostStopReturn
    \/ HostExit
    \/ \E c \in Children : ChildReady(c)
    \/ \E c \in Children : ChildExit(c)
    \/ \E c \in Children : ChildCollected(c)

\* ------------------------------------------------------------ specifications
\* wait_for_health alone: the endpoint's answers are its only input
SpecHealth == Init /\ [][HealthNext]_vars

\* a wait_for_health call that is awaited to its end: every request ends
\* (the per-request timeout sees to it), every sleep ends, and the task is
\* polled again after each
HealthAdvance ==
    \/ HealthPoll
    \/ HealthTimeout
    \/ HealthSuccess
    \/ HealthFailure
    \/ HealthSleep

HealthRun == HealthCall \/ HealthAdvance

SpecHealthRun == Init /\ [][HealthRun]_vars /\ WF_vars(HealthAdvance)

\* wait_for_health running beside the start, stop and is_running calls of
\* one other thread, on children that start serving and exit by themselves
HealthPeer == 1

PeerCall(t) ==
    \/ StartNotFound(t) \/ StartSpawnFailed(t) \/ StartSpawn(t)
    \/ StartLock(t) \/ StartStore(t)
    \/ StopCall(t) \/ StopLock(t) \/ StopNone(t) \/ StopKill(t)
    \/ StopWait(t) \/ StopClear(t)
    \/ IsRunningCall(t) \/ IsRunningLock(t) \/ IsRunningNone(t)
    \/ IsRunningExited(t) \/ IsRunningAlive(t)

NextHealthBeside ==
    \/ HealthNext
    \/ PeerCall(HealthPeer)
    \/ \E c \in Children : ChildReady(c)
    \/ \E c \in Children : ChildExit(c)

SpecHealthBeside == Init /\ [][NextHealthBeside]_vars

\* the host application from launch to exit
SpecHost == Init /\ [][NextHost]_vars

\* the calls of one thread, one after the other, with no other call between
SoloThread == 1

NextSolo ==
    \/ PeerCall(SoloThread)
    \/ IsRunningProbeErr(SoloThread)
    \/ \E c \in Children : ChildReady(c)
    \/ \E c \in Children : ChildExit(c)
    \/ \E c \in Children : ChildCollected(c)

SpecSolo == Init /\ [][NextSolo]_vars

\* the calls of one thread, with find_python run probe by probe inside start
FindThread == 1

NextFind ==
    \/ FindCall(FindThread)
    \/ FindProbe(FindThread)
    \/ FindNone(FindThread)
    \/ FoundSpawnFailed(FindThread)
    \/ FoundSpawn(FindThread)
    \/ StartLock(FindThread)
    \/ StartStore(FindThread)
    \/ StopCall(FindThread) \/ StopLock(FindThread) \/ StopNone(FindThread)
    \/ StopKill(FindThread) \/ StopWait(FindThread) \/ StopClear(FindThread)
    \/ IsRunningCall(FindThread) \/ IsRunningLock(FindThread)
    \/ IsRunningNone(FindThread) \/ IsRunningExited(FindThread)
    \/ IsRunningAlive(FindThread) \/ IsRunningProbeErr(FindThread)
    \/ \E c \in Children : ChildReady(c)
    \/ \E c \in Children : ChildExit(c)
    \/ \E c \in Children : ChildCollected(c)

SpecFind == Init /\ [][NextFind]_vars

\* ------------------------------------------------------------ scheduling
\* a thread inside a call keeps running: every step that does not wait for
\* the mutex or for a child is eventually taken
RunsOn(t) ==
    \/ StartStore(t)
    \/ StopNone(t) \/ StopKill(t) \/ StopWait(t) \/ StopClear(t)
    \/ IsRunningNone(t) \/ IsRunningExited(t) \/ IsRunningAlive(t)
    \/ IsRunningProbeErr(t)

\* a thread blocked in lock() gets the mutex if it is released again and again
Acquires(t) == StartLock(t) \/ StopLock(t) \/ IsRunningLock(t)

\* a child that was sent the kill signal terminates
KilledChildExits(c) == childState[c] = "dying" /\ ChildExit(c)

Fairness ==
    /\ \A t \in Threads : WF_vars(RunsOn(t))
    /\ \A t \in Threads : SF_vars(Acquires(t))
    /\ \A c \in Children : WF_vars(KilledChildExits(c))

SpecFair == Init /\ [][Next]_vars /\ Fairness

\* ------------------------------------------------------------ type invariant
TypeOK ==
    /\ process \in {None} \cup Children
    /\ lock \in {NoThread} \cup Threads
    /\ childState \in [Children -> ChildStates]
    /\ child \in [Threads -> {None} \cup Children]
    /\ killRes \in {"-", "Ok", "Err"}
    /\ waitRes \in {"-", "Ok", "Err"}
    /\ life \in {"live", "dropping", "dropped"}
    /\ dropStops \in 0..1
    /\ stopReturned \in BOOLEAN
    /\ orphaned \subseteq Children
    /\ hpc \in {"h_idle", "h_check", "h_send", "h_sleep", "h_done", "h_cancelled",
               "h_reported"}
    /\ elapsed \in 0..(DeadlineTicks + RequestTicks + PollTicks)
    /\ hret \in {"-", "Ok", "Timeout"}
    /\ hresp \in {"-", "success"} \cup Failures
    /\ hostPc \in {"off", "setup", "in_start", "setup_health", "setup_tray",
                  "setup_window", "setup_shortcut", "setup_updates", "aborted"}
                 \cup HostLive \cup {"exited"}
    /\ window \in {"visible", "hidden", "destroyed"}
    /\ setupDone \subseteq SetupSteps
    /\ startCalls \in 0..1
    /\ Len(probed) <= Len(Candidates)
    /\ \A i \in 1..Len(probed) : probed[i] \in ProbeOutcomes
    /\ python \in {"-", NotFound} \cup {Candidates[i] : i \in 1..Len(Candidates)}
    /\ hostLog \in {"-", "Failed to start backend server",
                   "Backend health check failed", "Failed to create system tray",
                   "Failed to register global shortcut"}

\* ------------------------------------------------------------ helpers of the properties
\* thread t is between taking and releasing the mutex
InCritical(t) ==
    pc[t] \in {"start_store", "stop_check", "stop_wait", "stop_clear", "running_probe"}

\* this step is the return of thread t's stop / is_running / start
StopReturns(t) == pc[t] \in {"stop_check", "stop_clear"} /\ pc'[t] = "idle"
IsRunningReturns(t) == pc[t] = "running_probe" /\ pc'[t] = "idle"
StartStores(t) == pc[t] = "start_store" /\ pc'[t] = "idle"

LiveChildren == {c \in Children : childState[c] \in Alive}

\* ------------------------------------------------------------ C1
\* C1: once a stop has returned and until a start stores a new handle, the
\* slot is empty and every is_running call that returns, returns false.
C1_StoppedMeansNotRunning ==
    /\ [](stopReturned => process = None)
    /\ [][\A t \in Threads :
            (stopReturned /\ IsRunningReturns(t))
                => (ret' = [op |-> "is_running", val |-> "false"]
                    /\ process' = None)]_vars

\* a start stored child 1, a stop returned after it and collected the child,
\* and the is_running after that stop answered false
C1_Witness ==
    /\ stopReturned
    /\ ret = [op |-> "is_running", val |-> "false"]
    /\ childState[1] = "reaped"
    /\ childState[2] = "unspawned"
    /\ logged = "-"

\* ------------------------------------------------------------ C2
\* C2: in every reachable state at most one child spawned by the supervisor is
\* alive (spawned, not terminated).
C2_AtMostOneLive == Cardinality(LiveChildren) <= 1

\* ------------------------------------------------------------ C3
\* C3: once the supervisor has been dropped, Drop has called stop exactly once
\* and no child spawned by the supervisor is alive.
C3_NoLeakAfterDrop ==
    life = "dropped" => (dropStops = 1 /\ LiveChildren = {})

\* ------------------------------------------------------------ C4
\* C4: a start that reaches its store while a handle is present returns the
\* AlreadyRunning error and leaves the slot as it was.
C4_StartFailsFast ==
    [][\A t \in Threads :
        (StartStores(t) /\ process # None)
            => (process' = process
                /\ ret' = [op |-> "start", val |-> "AlreadyRunning"])]_vars

\* ------------------------------------------------------------ C5
\* C5: every thread that is reading or writing the slot holds the mutex, so
\* at most one thread is inside a slot access; the slot changes only in a
\* step of the thread holding the mutex, namely the step that releases it and
\* returns, so the slot's value is the one left by the critical sections
\* taken one after the other in the order of their releases.
C5_SlotSerialized ==
    /\ [](\A t \in Threads : InCritical(t) <=> lock = t)
    /\ [](Cardinality({t \in Threads : InCritical(t)}) <= 1)
    /\ [][process' # process
            => (/\ lock \in Threads
                /\ lock' = NoThread
                /\ InCritical(lock)
                /\ pc'[lock] = "idle"
                /\ \A u \in Threads \ {lock} : pc'[u] = pc[u])]_vars
    /\ [][\A t \in Threads :
            (lock = t /\ lock' = t) => process' = process]_vars

\* a stop is waiting for the exit of the stored child under the mutex while
\* another thread is blocked on the mutex in is_running or in start
C5_Witness ==
    \E t, u \in Threads :
        /\ pc[t] = "stop_wait"
        /\ lock = t
        /\ pc[u] \in {"running_lock", "start_lock"}
        /\ process # None

\* ------------------------------------------------------------ C6
\* C6: whenever stop returns, the slot is empty and the value returned is (),
\* also when kill or wait reported an error, which is then the line last
\* written to the log.
C6_StopAlwaysClears ==
    [][\A t \in Threads :
        StopReturns(t)
            => (/\ process' = None
                /\ ret' = [op |-> "stop", val |-> "unit"]
                /\ (waitRes = "Err"
                        => logged' = "Error waiting for server to stop")
                /\ (killRes = "Err" /\ waitRes # "Err"
                        => logged' = "Error stopping server"))]_vars

\* a stop whose kill or wait reported an error has returned
C6_Witness ==
    /\ ret = [op |-> "stop", val |-> "unit"]
    /\ logged \in {"Error stopping server", "Error waiting for server to stop"}
    /\ process = None
    /\ \A t \in Threads : pc[t] = "idle"

\* ------------------------------------------------------------ C7
\* the stored child has terminated (only is_running's caller is concerned:
\* outside stop's critical section a stored child is never "dying")
StoredChildExited == process # None /\ childState[process] \in {"zombie", "gone"}

\* C7 as stated: when the stored child has exited, the is_running that
\* returns next answers false and clears the slot.
C7_ExitedIsCleared ==
    [][\A t \in Threads :
        (IsRunningReturns(t) /\ StoredChildExited)
            => (ret' = [op |-> "is_running", val |-> "false"]
                /\ process' = None)]_vars

\* C7 amended: when the stored child has exited, the is_running that returns
\* next answers false; it collects the child and clears the slot when the
\* probe reports the exit, and leaves the slot as it was when the probe
\* itself reports an error.
C7_ExitedIsClearedUnlessProbeErr ==
    [][\A t \in Threads :
        (IsRunningReturns(t) /\ StoredChildExited)
            => (/\ ret' = [op |-> "is_running", val |-> "false"]
                /\ (childState[process] = "zombie"
                        => (process' = None
                            /\ childState'[process] = "reaped"))
                /\ (childState[process] = "gone"
                        => (process' = process
                            /\ logged' = "Error checking process status")))]_vars

\* is_running has answered false and cleared the slot of a child that exited
\* on its own (nothing was ever stopped or killed)
C7_Witness ==
    /\ ret = [op |-> "is_running", val |-> "false"]
    /\ process = None
    /\ ~stopReturned
    /\ childState[1] = "reaped"
    /\ \A t \in Threads : pc[t] = "idle"

\* ------------------------------------------------------------ C8
\* C8: a stop that found a handle kills, then waits, then clears, holding the
\* mutex throughout; when kill and wait both succeeded, the child that was
\* stored has terminated and been collected when stop returns.
C8_StopKillsWaitsClears ==
    /\ [](\A t \in Threads :
            /\ (pc[t] = "stop_wait"
                    => (lock = t /\ process # None
                        /\ killRes # "-" /\ waitRes = "-"))
            /\ (pc[t] = "stop_clear" /\ process # None
                    => (lock = t /\ killRes # "-" /\ waitRes # "-")))
    /\ [][\A t \in Threads :
            (StopReturns(t) /\ killRes = "Ok" /\ waitRes = "Ok")
                => (/\ process # None
                    /\ childState[process] = "reaped"
                    /\ childState'[process] = "reaped"
                    /\ process' = None)]_vars

\* a stop has killed a live child, waited for it and is about to clear
C8_Witness ==
    \E t \in Threads :
        /\ pc[t] = "stop_clear"
        /\ killRes = "Ok"
        /\ waitRes = "Ok"
        /\ process # None
        /\ childState[process] = "reaped"

\* ------------------------------------------------------------ C9
\* C9: as long as no start has spawned a child, the slot is empty and an
\* is_running call that returned, returned false.
NothingSpawned == \A c \in Children : childState[c] = "unspawned"

C9_NotRunningBeforeStart ==
    NothingSpawned
        => (process = None /\ (ret.op = "is_running" => ret.val = "false"))

\* is_running has returned on a supervisor on which nothing was started
C9_Witness ==
    /\ NothingSpawned
    /\ ret = [op |-> "is_running", val |-> "false"]
    /\ process = None

\* ------------------------------------------------------------ C10
\* C10: every step of a stop that found the slot empty leaves the slot empty
\* and leaves the children and the log as they were, and such a stop returns
\* (); hence a stop after a stop changes nothing.
C10_StopIdempotent ==
    [][\A t \in Threads :
        (pc[t] \in {"stop_check", "stop_clear"} /\ pc'[t] # pc[t]
         /\ process = None)
            => (/\ process' = None
                /\ childState' = childState
                /\ logged' = logged
                /\ killRes' = "-" /\ waitRes' = "-"
                /\ (pc'[t] = "idle" => ret' = [op |-> "stop", val |-> "unit"]))]_vars

\* a stop has returned on a supervisor on which nothing was ever started
C10_Witness ==
    /\ NothingSpawned
    /\ ret = [op |-> "stop", val |-> "unit"]
    /\ stopReturned
    /\ process = None

\* ------------------------------------------------------------ C11
\* C11: an is_running call changes the slot only when it finds that the
\* stored child has exited, and then clears it; with no handle, with a child
\* still alive (answer true) and with a failing probe (answer false) the slot
\* stays as it was; no child changes state except the exited one, which is
\* collected.
C11_IsRunningFrame ==
    [][\A t \in Threads :
        IsRunningReturns(t)
            => (/\ (process' # process
                        => (/\ process # None
                            /\ TryWait(childState[process]) = "Exited"
                            /\ process' = None
                            /\ ret'.val = "false"))
                /\ (process = None
                        => (process' = None /\ ret'.val = "false"
                            /\ childState' = childState))
                /\ (process # None /\ TryWait(childState[process]) = "Running"
                        => (process' = process /\ ret'.val = "true"
                            /\ childState' = childState))
                /\ (process # None /\ TryWait(childState[process]) = "Err"
                        => (process' = process /\ ret'.val = "false"
                            /\ childState' = childState))
                /\ \A c \in Children :
                        c # process => childState'[c] = childState[c])]_vars

\* is_running has answered false after a failing probe and the handle is
\* still stored
C11_Witness ==
    /\ ret = [op |-> "is_running", val |-> "false"]
    /\ logged = "Error checking process status"
    /\ process # None
    /\ childState[process] = "gone"
    /\ \A t \in Threads : pc[t] = "idle"

\* ------------------------------------------------------------ C14
\* this step is a start returning an error: no thread moves, and the value
\* returned last becomes an error of start
StartFails ==
    /\ pc' = pc
    /\ ret' # ret
    /\ ret'.op = "start"

\* C14: a start that returns an error returns RuntimeNotFound or the distinct
\* SpawnFailed, spawns nothing, and leaves the slot, the lock and every child
\* as they were.
C14_FailedStartChangesNothing ==
    [][StartFails
        => (/\ ret'.val \in {"RuntimeNotFound", "SpawnFailed"}
            /\ process' = process
            /\ lock' = lock
            /\ childState' = childState
            /\ child' = child)]_vars

\* a start has failed while a handle was stored, and the handle is still there
C14_Witness ==
    /\ ret.op = "start"
    /\ ret.val \in {"RuntimeNotFound", "SpawnFailed"}
    /\ process # None
    /\ \A t \in Threads : pc[t] = "idle"

\* ------------------------------------------------------------ C18
\* C18: a start that stores while a handle is stored returns Ok and puts the
\* new child in the slot without changing the state of any child; the child
\* it replaced never comes back into the slot, so no kill, wait or try_wait of
\* the supervisor (stop, is_running, Drop) is ever applied to it: it is never
\* signalled and never collected by the supervisor.
C18_SecondStartOrphans ==
    /\ [][\A t \in Threads :
            StartStores(t)
                => (/\ process' = child[t]
                    /\ ret' = [op |-> "start", val |-> "Ok"]
                    /\ childState' = childState
                    /\ (process # None => process \in orphaned'))]_vars
    /\ [](process \notin orphaned)
    /\ [][orphaned \subseteq orphaned']_vars
    /\ [][\A c \in orphaned :
            childState'[c] # childState[c]
                => childState'[c] \notin {"dying", "reaped"}]_vars

\* the supervisor has been dropped and a child replaced by a second start is
\* still alive
C18_Witness ==
    /\ life = "dropped"
    /\ \E c \in orphaned : childState[c] \in Alive
    /\ \A t \in Threads : pc[t] = "idle"

\* ------------------------------------------------------------ C19
\* C19: every stop that has been called eventually returns.
C19_StopReturns ==
    \A t \in Threads :
        (pc[t] \in {"stop_lock", "stop_check", "stop_wait", "stop_clear"})
            ~> (pc[t] = "idle")

\* ------------------------------------------------------------ C12
\* one step of wait_for_health and its outcome
HealthOutcome ==
    /\ (hpc = "h_send" /\ hresp' = "success") =>
            /\ hpc' = "h_done"
            /\ hret' = "Ok"
            /\ elapsed' <= elapsed + RequestTicks
    /\ (hpc = "h_send" /\ hresp' \in Failures) =>
            /\ hpc' = "h_sleep"
            /\ hret' = "-"
    /\ (hret # "Ok" /\ hret' = "Ok") =>
            /\ hpc = "h_send"
            /\ hresp' = "success"
    /\ (hret # "Timeout" /\ hret' = "Timeout") =>
            /\ hpc = "h_check"
            /\ elapsed >= DeadlineTicks
            /\ hresp # "success"
    /\ (hpc = "h_check" /\ hpc' # hpc) =>
            IF elapsed < DeadlineTicks
            THEN hpc' = "h_send" /\ hret' = "-"
            ELSE hpc' = "h_done" /\ hret' = "Timeout"

C13_TimeoutWithinOneInterval ==
    hret = "Timeout" => elapsed <= DeadlineTicks + PollTicks

\* ------------------------------------------------------------ C20
\* a step of wait_for_health, its cancellation included
HealthStep == healthVars' # healthVars

\* wait_for_health can take its next step whatever the lock and the slot are
HealthNeverBlocked ==
    /\ hpc = "h_check" => ENABLED (HealthPoll \/ HealthTimeout)
    /\ hpc = "h_send" => (ENABLED HealthSuccess) /\ (ENABLED HealthFailure)
    /\ hpc = "h_sleep" => ENABLED HealthSleep
    /\ hpc \in {"h_send", "h_sleep"} => ENABLED HealthCancel

\* a call waiting for the free lock gets it wherever wait_for_health stands
PeerNeverBlocked ==
    \A t \in Threads :
        /\ (pc[t] = "start_lock" /\ lock = NoThread) => ENABLED StartLock(t)
        /\ (pc[t] = "stop_lock" /\ lock = NoThread) => ENABLED StopLock(t)
        /\ (pc[t] = "running_lock" /\ lock = NoThread) => ENABLED IsRunningLock(t)

\* C20: every step of wait_for_health, a cancellation at a suspension point
\* included, leaves the slot, the lock and the children as they are; its
\* next step, with either answer of the endpoint, is enabled whatever the
\* slot holds and whoever holds the lock; and a start, stop or is_running
\* waiting for the free lock acquires it wherever wait_for_health stands.
C20_HealthIsDisjoint ==
    /\ [](HealthNeverBlocked /\ PeerNeverBlocked)
    /\ [][HealthStep => UNCHANGED supVars]_vars

\* wait_for_health sleeps between two polls while a stop holds the lock,
\* blocked in wait on a child that did not die
C20_Witness ==
    /\ hpc = "h_sleep"
    /\ elapsed > RequestTicks
    /\ lock = HealthPeer
    /\ pc[HealthPeer] = "stop_wait"
    /\ process # None

\* ------------------------------------------------------------ C15
\* C15: when the application has exited after Quit, stop has been called and
\* has returned, and no child is left alive.
C15_QuitStopsChild ==
    hostPc = "exited" =>
        /\ stopReturned
        /\ \A c \in Children : childState[c] \notin Alive

\* ------------------------------------------------------------ C16
\* some thread enters start
StartBegins ==
    \/ \E t \in Threads : pc[t] = "idle" /\ pc'[t] = "start_lock"
    \/ StartFails

StartOnce ==
    /\ startCalls <= 1
    /\ hostPc \notin {"off", "setup"} => startCalls = 1
    /\ hpc # "h_idle" => "health" \in setupDone
    /\ (hostPc = "aborted" /\ "health" \notin setupDone) =>
            /\ setupDone = {}
            /\ hpc = "h_idle"
            /\ ret.op = "start"
            /\ ret.val # "Ok"

StartGatesSetup ==
    /\ StartBegins => (hostPc = "in_start" /\ ret.op = "none")
    /\ ("health" \notin setupDone /\ "health" \in setupDone') =>
            /\ pc[MainThread] = "idle"
            /\ ret.op = "start"
            /\ ret.val = "Ok"
    /\ (hostPc = "in_start" /\ hostPc' # hostPc) =>
            /\ ret.op = "start"
            /\ hostPc' = IF ret.val = "Ok" THEN "setup_health" ELSE "aborted"
    /\ hostPc = "aborted" =>
            /\ hostVars' = hostVars
            /\ healthVars' = healthVars
            /\ pc' = pc

\* C16: the setup closure calls start once and no start begins at any other
\* time; the health task is spawned only when that start has returned Ok;
\* when it returned an error the closure ends in abort, and from then on no
\* setup step has run or runs and wait_for_health is never begun.
C16_StartOnceThenHealth == []StartOnce /\ [][StartGatesSetup]_vars

\* startup aborted because no interpreter was found
C16_Witness ==
    /\ hostPc = "aborted"
    /\ startCalls = 1
    /\ ret.val = "RuntimeNotFound"
    /\ setupDone = {}

\* ------------------------------------------------------------ C17
TimeoutOnlyLogged ==
    /\ (hret # "Timeout" /\ hret' = "Timeout") => UNCHANGED <<supVars, hostVars>>
    /\ (hpc = "h_done" /\ hret = "Timeout" /\ hpc' # hpc) =>
            /\ hostLog' = "Backend health check failed"
            /\ UNCHANGED <<supVars, hostPc, window, setupDone, startCalls>>
    /\ (\E t \in Threads : pc[t] = "idle" /\ pc'[t] = "stop_lock") =>
            hostPc = "in_stop"

\* C17: the step in which wait_for_health returns the timeout error and the
\* step in which the host's task receives it change neither the slot, the
\* lock, the children nor the position of the host: the task writes its
\* log line and nothing else; stop is entered only from the Destroyed
\* handler; and a startup that was aborted after a timeout was aborted by
\* the tray, never by the timeout.
C17_TimeoutIsNotFatal ==
    /\ [][TimeoutOnlyLogged]_vars
    /\ []((hret = "Timeout" /\ hostPc = "aborted") =>
               hostLog = "Failed to create system tray")

\* the timeout has been logged; the application runs on with the handle
\* stored and the child alive
C17_Witness ==
    /\ hpc = "h_reported"
    /\ hret = "Timeout"
    /\ hostLog = "Backend health check failed"
    /\ hostPc = "running"
    /\ process # None
    /\ childState[process] \in Alive
    /\ ~stopReturned

\* ------------------------------------------------------------ C21
\* this step empties the slot or puts another child in it
SlotChanges == process # None /\ process' # process

StartedIsRunning ==
    /\ SlotChanges =>
            \E t \in Threads :
                \/ StartStores(t)
                \/ StopReturns(t)
                \/ IsRunningReturns(t) /\ childState[process] = "zombie"
    /\ \A t \in Threads :
        /\ StartStores(t) =>
                /\ child[t] # None
                /\ process' = child[t]
                /\ ret' = [op |-> "start", val |-> "Ok"]
        /\ (IsRunningReturns(t) /\ process # None
                /\ childState[process] \in Alive) =>
                /\ ret' = [op |-> "is_running", val |-> "true"]
                /\ process' = process

\* C21: with the calls of one thread only, the step in which start returns
\* Ok puts the child it spawned in the slot; the slot keeps that child until
\* a stop returns, a later start stores its own child, or an is_running
\* finds that the child has exited; and every is_running that returns while
\* the stored child has not exited returns true and keeps the slot.
C21_StartedIsRunning == [][StartedIsRunning]_vars

\* is_running answered true for the child a start stored; no stop was called
C21_Witness ==
    /\ ret = [op |-> "is_running", val |-> "true"]
    /\ process = 1
    /\ childState[1] = "serving"
    /\ ~stopReturned
    /\ pc[SoloThread] = "idle"

\* ------------------------------------------------------------ C22
\* candidate i has been probed and its version query exited successfully
Succeeded(i) == i <= Len(probed) /\ probed[i] = "success"

\* the probes made, as the input of FindPython
AsProbes == [i \in 1..Len(Candidates) |-> Succeeded(i)]

FirstSuccessful ==
    /\ python \in {"-", NotFound} \cup {Candidates[i] : i \in 1..Len(Candidates)}
    /\ \A i \in 1..Len(Candidates) :
        /\ python = Candidates[i] <=>
                (Succeeded(i) /\ \A j \in 1..(i - 1) : ~Succeeded(j))
        /\ python = Candidates[i] => Len(probed) = i
    /\ python = NotFound <=>
            /\ Len(probed) = Len(Candidates)
            /\ \A j \in 1..Len(Candidates) : ~Succeeded(j)
            /\ pc[FindThread] # "find"
    /\ python # "-" => python = FindPython(AsProbes)

ProbedInOrder ==
    /\ probed' # probed =>
            \/ probed' = <<>>
            \/ python = "-" /\ \E o \in ProbeOutcomes : probed' = Append(probed, o)
    /\ (ret' # ret /\ ret'.val = "RuntimeNotFound") => python' = NotFound
    /\ (\E t \in Threads : pc[t] # "start_lock" /\ pc'[t] = "start_lock") =>
            python \in {Candidates[i] : i \in 1..Len(Candidates)}

\* C22: find_python probes python3 and then python, one after the other,
\* and probes no further once it has a result; it returns candidate i exactly
\* when the version query of i ran and exited successfully and that of every
\* candidate before i did not; it returns the error exactly when all
\* candidates were probed and none succeeded; its result agrees with
\* FindPython on the outcomes of the probes; start returns the
\* runtime-not-found error only on that error and spawns only with a
\* candidate.
C22_FirstSuccessfulCandidate == []FirstSuccessful /\ [][ProbedInOrder]_vars

\* python3 is absent, python succeeds: python is returned and start stores
\* the child spawned with it
C22_Witness ==
    /\ probed = <<"absent", "success">>
    /\ python = "python"
    /\ process = 1
    /\ ret = [op |-> "start", val |-> "Ok"]

\* ------------------------------------------------------------ C23
\* a poll is begun only before the deadline, and between two polls the
\* clock advances by the poll interval at least and never goes back
PollsAdvanceTime ==
    /\ (hpc = "h_check" /\ hpc' = "h_send") => elapsed < DeadlineTicks
    /\ (hpc = "h_sleep" /\ hpc' = "h_check") => elapsed' >= elapsed + PollTicks
    /\ hpc # "h_idle" => elapsed' >= elapsed

\* C23: a wait_for_health call whose requests and sleeps all end returns,
\* with Ok or with the timeout error; every poll begins before the deadline
\* and every failed poll is followed by a sleep of one poll interval, so
\* that no more than DeadlineTicks \div PollTicks polls are made.
C23_HealthTerminates ==
    /\ (hpc = "h_check") ~> (hpc = "h_done" /\ hret \in {"Ok", "Timeout"})
    /\ [][PollsAdvanceTime]_vars

\* the timeout error returned at the deadline, after one failed poll in
\* every poll interval
C23_Witness == hpc = "h_done" /\ hret = "Timeout" /\ elapsed = DeadlineTicks

\* ------------------------------------------------------------ C24
\* C24: the mutex is held exactly by the thread that is between lock() and
\* the release, it is taken only when free, and, every killed child exiting
\* in the end, every start, stop and is_running call that has begun
\* returns.
C24_EveryCallReturns ==
    /\ [](\A t \in Threads : lock = t <=> InCritical(t))
    /\ [][\A t \in Threads : (lock' = t /\ lock # t) => lock = NoThread]_vars
    /\ \A t \in Threads : (pc[t] # "idle") ~> (pc[t] = "idle")

\* ------------------------------------------------------------ C25
\* the window handler answers a close request: the window gets hidden
CloseAnswered == window # "hidden" /\ window' = "hidden"

\* some thread enters stop
StopBegins == \E t \in Threads : pc[t] = "idle" /\ pc'[t] = "stop_lock"

CloseOnlyHides ==
    /\ CloseAnswered =>
            /\ window = "visible"
            /\ UNCHANGED <<supVars, healthVars>>
            /\ ~StopBegins
    /\ StopBegins => (hostPc = "in_stop" /\ window = "destroyed")
    /\ (window # "destroyed" /\ window' = "destroyed") => hostPc' = "in_stop"

\* C25: the step in which the window handler answers a close request hides
\* the window, does not destroy it, and changes neither the slot, the lock
\* nor any child, and no stop begins in it; a stop begins only in the
\* Destroyed arm, once the window has been destroyed.
C25_CloseNeverStops == [][CloseOnlyHides]_vars

\* the window was closed and is hidden; the application runs on with the
\* handle stored, the backend serving and no stop called
C25_Witness ==
    /\ window = "hidden"
    /\ hostPc = "running"
    /\ process # None
    /\ childState[process] = "serving"
    /\ ~stopReturned
    /\ pc[MainThread] = "idle"

====
